---- MODULE Spec2Model ----
(***************************************************************************)
(* A model of the worker-side execution engine of rusty-celery             *)
(* (src/src/app/mod.rs): the task registry, the per-delivery handler       *)
(* try_handle_delivery and the consume loop with its two-phase shutdown.   *)
(* The tracer (mod trace) and the broker transport are collaborators of    *)
(* app/mod.rs; the tracer is modelled from its state table in the          *)
(* specification, the broker calls are recorded and may succeed or fail.   *)
(***************************************************************************)
EXTENDS Integers, Sequences, FiniteSets

\* ---------------------------------------------------------------- bounds
\* Number of deliveries the broker stream yields during one run of consume.
MaxDeliveries == 1
\* The clock runs from 0 to MaxTime.
MaxTime == 1
\* Largest value of the `retries` header of an incoming message.
MaxHdrRetries == 1
\* Number of register_task calls made during start-up.
MaxRegisterCalls == 4
\* Option values a builder setter or a task override is given: 0..MaxOptionValue.
MaxOptionValue == 1

\* ------------------------------------------------------------- constants
\* Option<usize>::None, and "no value" in general (usize values are >= 0).
None == -1

\* Task kinds (the type parameter T of register_task) and their T::NAME.
\* Add and Add2 are two kinds that declare the same name.
TaskTypes == {"Add", "Add2", "Flaky"}
TaskNames == {"add", "flaky"}
NAME(t) == IF t = "Flaky" THEN "flaky" ELSE "add"

\* Per-kind option overrides (Task::timeout() etc.); None = not overridden.
\* Flaky is the task of the retry scenario: max_retries 1, delays 1..4,
\* and it also carries a timeout of 1 second.
TaskTimeout(t) == IF t = "Flaky" THEN 1 ELSE None
TaskMaxRetries(t) == IF t = "Flaky" THEN 1 ELSE None
TaskMinRetryDelay(t) == IF t = "Flaky" THEN 1 ELSE None
TaskMaxRetryDelay(t) == IF t = "Flaky" THEN 4 ELSE None

\* CeleryBuilder::new: the default task options.
DefaultTimeout == None
DefaultMaxRetries == None
DefaultMinRetryDelay == 0
DefaultMaxRetryDelay == 3600
DefaultTaskOptions ==
    [timeout |-> DefaultTimeout, max_retries |-> DefaultMaxRetries,
     min_retry_delay |-> DefaultMinRetryDelay,
     max_retry_delay |-> DefaultMaxRetryDelay]

\* Option::or and Option::unwrap_or.
OptionOr(a, b) == IF a # None THEN a ELSE b

\* What the four option methods of a task return.
TaskOverrides(t) ==
    [timeout |-> TaskTimeout(t), max_retries |-> TaskMaxRetries(t),
     min_retry_delay |-> TaskMinRetryDelay(t),
     max_retry_delay |-> TaskMaxRetryDelay(t)]

\* Faulty variant of overridesOf: the receiver and the argument of `or` and
\* `unwrap_or` are swapped, so the base value wins when it is set.
overridesOfBaseFirst(self, task) ==
    [timeout |-> OptionOr(self.timeout, task.timeout),
     max_retries |-> OptionOr(self.max_retries, task.max_retries),
     min_retry_delay |-> OptionOr(self.min_retry_delay, task.min_retry_delay),
     max_retry_delay |-> OptionOr(self.max_retry_delay, task.max_retry_delay)]

\* TaskOptions::overrides, for a task whose option methods return `task`.
overridesOf(self, task) ==
    [timeout |-> OptionOr(task.timeout, self.timeout),
     max_retries |-> OptionOr(task.max_retries, self.max_retries),
     min_retry_delay |-> OptionOr(task.min_retry_delay, self.min_retry_delay),
     max_retry_delay |-> OptionOr(task.max_retry_delay, self.max_retry_delay)]

\* TaskOptions::overrides, for the task kind t.
overrides(self, t) == overridesOf(self, TaskOverrides(t))

\* The values the option methods of a task can return.
OptionValues == {None} \cup 0..MaxOptionValue
TaskOverrideSets ==
    [timeout : OptionValues, max_retries : OptionValues,
     min_retry_delay : OptionValues, max_retry_delay : OptionValues]
NoOverrides ==
    [timeout |-> None, max_retries |-> None, min_retry_delay |-> None,
     max_retry_delay |-> None]

\* ------------------------------------------------------------ deliveries
\* What the broker stream can yield.  kind: "brokerErr" is Err(DeliveryError),
\* "undecodable" a delivery whose try_into_message fails, "msg" a delivery
\* that decodes into a Message with the given headers; bodyOk says whether
\* the raw body decodes into the parameters of the task kind.
NoDelivery ==
    [kind |-> "none", task |-> "none", eta |-> None, retries |-> 0, bodyOk |-> TRUE]

Deliveries ==
    {[kind |-> "brokerErr", task |-> "none", eta |-> None, retries |-> 0, bodyOk |-> TRUE],
     [kind |-> "undecodable", task |-> "none", eta |-> None, retries |-> 0, bodyOk |-> TRUE],
     [kind |-> "msg", task |-> "unknown", eta |-> None, retries |-> 0, bodyOk |-> TRUE],
     [kind |-> "msg", task |-> "add", eta |-> None, retries |-> 0, bodyOk |-> FALSE]}
    \cup
    {[kind |-> "msg", task |-> "add", eta |-> e, retries |-> 0, bodyOk |-> TRUE] :
        e \in {None, 1}}
    \cup
    {[kind |-> "msg", task |-> "flaky", eta |-> e, retries |-> r, bodyOk |-> TRUE] :
        e \in {None, 1}, r \in 0..MaxHdrRetries}

Handlers == 1..MaxDeliveries

\* -------------------------------------------------------------- the state
VARIABLES
    builder,        \* the CeleryBuilder / Celery: built, and its task_options
    overridden,     \* the last TaskOptions::overrides call: task and result
    registry,       \* task_trace_builders: task name -> task kind, or "none"
    regLog,         \* the register_task calls made so far, with their results
    now,            \* the clock
    phase,          \* consume: "main", "warm" (warm-shutdown loop), "returned"
    result,         \* what consume returned: "none", "Ok", "ForcedShutdown"
    sigTaken,       \* interrupts taken by the two select! loops
    pending_tasks,  \* the counter of consume
    exitedFrom,     \* the loop consume returned from: "main", "warm", or "none"
    events,         \* the unbounded event channel (FIFO)
    spawned,        \* number of handle_delivery tasks spawned
    pc,             \* per handler: position in try_handle_delivery
    delivery,       \* per handler: the delivery it was spawned with
    tracer,         \* per handler: state of its tracer
    perr,           \* per handler: the error held across the ack/retry await
    ret,            \* per handler: what try_handle_delivery returned
    oplog,          \* per handler: broker calls, events and execute, in order
    retryEta,       \* per handler: the eta argument of its broker.retry call
    failedOp,       \* per handler: its first broker call that failed, or "none"
    outcome,        \* per handler: how its execute() ended, or "none"
    lastFailed,     \* per handler: its last broker call that failed, or "none"
    wasDelayed      \* per handler: the first is_delayed(): "yes", "no", or "none"

vars == <<builder, overridden, registry, regLog, now, phase, result, sigTaken,
          pending_tasks, exitedFrom, events, spawned, pc, delivery, tracer, perr, ret,
          oplog, retryEta, failedOp, outcome, lastFailed, wasDelayed>>

regVars == <<registry, regLog>>
optVars == <<builder, overridden>>
loopVars == <<phase, result, sigTaken, pending_tasks, exitedFrom>>
handlerVars == <<pc, delivery, tracer, perr, ret, oplog, retryEta, failedOp, outcome,
                 lastFailed, wasDelayed>>

EmptyRegistry == [n \in TaskNames |-> "none"]

InitHandlers ==
    /\ spawned = 0
    /\ pc = [h \in Handlers |-> "idle"]
    /\ delivery = [h \in Handlers |-> NoDelivery]
    /\ tracer = [h \in Handlers |-> "none"]
    /\ perr = [h \in Handlers |-> "none"]
    /\ ret = [h \in Handlers |-> "none"]
    /\ oplog = [h \in Handlers |-> <<>>]
    /\ retryEta = [h \in Handlers |-> None]
    /\ failedOp = [h \in Handlers |-> "none"]
    /\ outcome = [h \in Handlers |-> "none"]
    /\ lastFailed = [h \in Handlers |-> "none"]
    /\ wasDelayed = [h \in Handlers |-> "none"]

InitLoop ==
    /\ now = 0
    /\ phase = "main"
    /\ result = "none"
    /\ sigTaken = 0
    /\ pending_tasks = 0
    /\ exitedFrom = "none"
    /\ events = <<>>

NotOverridden == [applied |-> FALSE, task |-> NoOverrides, result |-> DefaultTaskOptions]

\* Celery::new: the builder defaults, built.
InitApp ==
    /\ builder = [built |-> TRUE, task_options |-> DefaultTaskOptions]
    /\ overridden = NotOverridden

\* consume is entered after start-up has registered Add and Flaky.
Init ==
    /\ InitApp
    /\ registry = [n \in TaskNames |-> IF n = "add" THEN "Add" ELSE "Flaky"]
    /\ regLog = <<>>
    /\ InitLoop
    /\ InitHandlers

\* Celery::new / CeleryBuilder::build: an empty registry.
InitRegistry ==
    /\ InitApp
    /\ registry = EmptyRegistry
    /\ regLog = <<>>
    /\ InitLoop
    /\ InitHandlers

\* ---------------------------------------------------------------- registry
TaskAlreadyExists(n) == "TaskAlreadyExists(" \o n \o ")"
UnregisteredTaskError(n) == "UnregisteredTask(" \o n \o ")"

\* Faulty variant of RegistryAfterRegister: the later registration replaces
\* the builder already stored under the name.
RegistryAfterRegisterOverwrites(reg, t) == [reg EXCEPT ![NAME(t)] = t]

\* The map after register_task::<T>: insert only when the key is absent.
RegistryAfterRegister(reg, t) ==
    IF reg[NAME(t)] # "none" THEN reg ELSE [reg EXCEPT ![NAME(t)] = t]

\* The value register_task::<T> returns.
RegisterResult(reg, t) ==
    IF reg[NAME(t)] # "none" THEN TaskAlreadyExists(NAME(t)) ELSE "Ok"

register_task(t) ==
    /\ Len(regLog) < MaxRegisterCalls
    /\ registry' = RegistryAfterRegister(registry, t)
    /\ regLog' = Append(regLog, [task |-> t, result |-> RegisterResult(registry, t)])
    /\ UNCHANGED <<now, events, spawned>>
    /\ UNCHANGED optVars
    /\ UNCHANGED loopVars
    /\ UNCHANGED handlerVars

NextRegistry == \E t \in TaskTypes : register_task(t)

SpecRegistry == InitRegistry /\ [][NextRegistry]_vars

\* ----------------------------------------------------------------- builder
\* CeleryBuilder::new.
InitOptions ==
    /\ builder = [built |-> FALSE, task_options |-> DefaultTaskOptions]
    /\ overridden = NotOverridden
    /\ registry = EmptyRegistry
    /\ regLog = <<>>
    /\ InitLoop
    /\ InitHandlers

\* A builder setter stores options o.
SetOptions(o) ==
    /\ ~builder.built
    /\ builder' = [builder EXCEPT !.task_options = o]
    /\ UNCHANGED <<overridden, now, events, spawned>>
    /\ UNCHANGED regVars
    /\ UNCHANGED loopVars
    /\ UNCHANGED handlerVars

task_timeout(v) == SetOptions([builder.task_options EXCEPT !.timeout = v])
task_max_retries(v) == SetOptions([builder.task_options EXCEPT !.max_retries = v])
task_min_retry_delay(v) == SetOptions([builder.task_options EXCEPT !.min_retry_delay = v])
task_max_retry_delay(v) == SetOptions([builder.task_options EXCEPT !.max_retry_delay = v])

\* CeleryBuilder::build: the app takes the options of the builder.
build ==
    /\ ~builder.built
    /\ builder' = [builder EXCEPT !.built = TRUE]
    /\ UNCHANGED <<overridden, now, events, spawned>>
    /\ UNCHANGED regVars
    /\ UNCHANGED loopVars
    /\ UNCHANGED handlerVars

\* self.task_options.overrides(&task), for a task with the overrides `task`.
ApplyOverrides(task) ==
    /\ builder.built
    /\ overridden' = [applied |-> TRUE, task |-> task,
                      result |-> overridesOf(builder.task_options, task)]
    /\ UNCHANGED <<builder, now, events, spawned>>
    /\ UNCHANGED regVars
    /\ UNCHANGED loopVars
    /\ UNCHANGED handlerVars

NextOptions ==
    \/ \E v \in 0..MaxOptionValue : task_timeout(v)
    \/ \E v \in 0..MaxOptionValue : task_max_retries(v)
    \/ \E v \in 0..MaxOptionValue : task_min_retry_delay(v)
    \/ \E v \in 0..MaxOptionValue : task_max_retry_delay(v)
    \/ build
    \/ \E task \in TaskOverrideSets : ApplyOverrides(task)

SpecOptions == InitOptions /\ [][NextOptions]_vars

\* ------------------------------------------------------------------ tracer
\* The tracer of one delivery.  States: "none" (not constructed), "Armed",
\* "Running", and the terminal states "Success", "TimedOut", "RetryScheduled",
\* "Exhausted", "Failed".

\* The effective options of the tracer the builder of kind t constructs.
TracerOptions(t) == overrides(builder.task_options, t)

\* is_delayed(): the ETA is set and in the future at time t.
is_delayed(eta, t) == eta # None /\ eta > t

\* What execute() can do: return Ok, fail with a retryable error, fail with
\* another error, or (only under a deadline) exceed the timeout.
Outcomes(opts) ==
    {"Ok", "Retryable", "Fail"} \cup (IF opts.timeout # None THEN {"Timeout"} ELSE {})

CanRetry(retries, opts) == opts.max_retries = None \/ retries < opts.max_retries

\* The terminal state the tracer reaches when execute() ends with outcome o.
TracerDone(o, retries, opts) ==
    CASE o = "Ok" -> "Success"
      [] o = "Fail" -> "Failed"
      [] o = "Timeout" -> IF CanRetry(retries, opts) THEN "TimedOut" ELSE "Exhausted"
      [] OTHER -> IF CanRetry(retries, opts) THEN "RetryScheduled" ELSE "Exhausted"

\* The value trace() returns in a terminal state: Ok, or the kind of its error.
TraceReturn(st) ==
    CASE st = "Success" -> "Ok"
      [] st \in {"TimedOut", "RetryScheduled"} -> "Retry"
      [] OTHER -> "TaskError"

RECURSIVE Pow2(_)
Pow2(n) == IF n <= 0 THEN 1 ELSE 2 * Pow2(n - 1)
Min(a, b) == IF a < b THEN a ELSE b
Max(a, b) == IF a > b THEN a ELSE b

\* retry_eta(): now + min(max_retry_delay, max(min_retry_delay, 2^n * min_retry_delay)).
retry_eta(retries, opts, t) ==
    t + Min(opts.max_retry_delay,
            Max(opts.min_retry_delay, Pow2(retries) * opts.min_retry_delay))

\* UnboundedSender::send: the event is queued unless the receiver is gone.
Send(ch, ev) == IF phase = "returned" THEN ch ELSE Append(ch, ev)

\* ----------------------------------------------------- try_handle_delivery
\* Delivery::try_into_message: "Ok", or the decode error.
try_into_message(d) == IF d.kind = "msg" THEN "Ok" ELSE "ProtocolError"

\* The builder registered for the task name of message d, or "none".
LookupBuilder(reg, d) == IF d.task \in DOMAIN reg THEN reg[d.task] ELSE "none"

\* get_task_tracer: "Ok" when a tracer is built, else the error.
get_task_tracer(reg, d) ==
    IF LookupBuilder(reg, d) # "none"
    THEN (IF d.bodyOk THEN "Ok" ELSE "DecodeError")
    ELSE UnregisteredTaskError(d.task)

\* The options of the tracer of handler h.
OptionsOf(h) == TracerOptions(LookupBuilder(registry, delivery[h]))

\* Faulty variant of TerminalOp: every error of trace() is sent to retry.
TerminalOpRetriesEveryError(traced) == IF traced = "Ok" THEN "ack" ELSE "retry"

\* Faulty variant of TerminalOp: the kind of the error is not looked at and
\* every delivery is ack'd.
TerminalOpAlwaysAcks(traced) == "ack"

\* The broker operation chosen for the value trace() returned.
TerminalOp(traced) ==
    IF traced = "Ok" THEN "ack"
    ELSE IF traced = "Retry" THEN "retry"
    ELSE "ack"

Log(h, ops) == [oplog EXCEPT ![h] = oplog[h] \o ops]

\* The error of a failed broker call op.
BrokerErr(op) == "BrokerError(" \o op \o ")"

\* Faulty variant of Return: an error of the handler ends consume.
ReturnPropagates(h, v) ==
    /\ pc' = [pc EXCEPT ![h] = "done"]
    /\ ret' = [ret EXCEPT ![h] = v]
    /\ IF v = "Ok"
       THEN UNCHANGED <<phase, result>>
       ELSE phase' = "returned" /\ result' = v

\* try_handle_delivery returns v to handle_delivery, which logs an error and
\* returns nothing: the spawned task ends and consume is not touched.
Return(h, v) ==
    /\ pc' = [pc EXCEPT ![h] = "done"]
    /\ ret' = [ret EXCEPT ![h] = v]
    /\ UNCHANGED <<phase, result>>

\* The first and the last broker call of handler h that failed.
Failed(h, op, ok) ==
    /\ failedOp' = [failedOp EXCEPT ![h] = IF ~ok /\ failedOp[h] = "none" THEN op ELSE failedOp[h]]
    /\ lastFailed' = [lastFailed EXCEPT ![h] = IF ~ok THEN op ELSE lastFailed[h]]

\* First poll of the spawned handler, up to its first await: unwrap the
\* delivery result, decode it, build the tracer, ask is_delayed().
HandleStart(h) ==
    /\ pc[h] = "spawned"
    /\ LET d == delivery[h] IN
       IF d.kind = "brokerErr"
       THEN /\ Return(h, "BrokerError")
            /\ UNCHANGED <<tracer, perr, wasDelayed>>
       ELSE IF try_into_message(d) # "Ok"
       THEN /\ pc' = [pc EXCEPT ![h] = "ack_err"]
            /\ perr' = [perr EXCEPT ![h] = try_into_message(d)]
            /\ UNCHANGED <<tracer, ret, wasDelayed, phase, result>>
       ELSE IF get_task_tracer(registry, d) # "Ok"
       THEN /\ pc' = [pc EXCEPT ![h] = "ack_err"]
            /\ perr' = [perr EXCEPT ![h] = get_task_tracer(registry, d)]
            /\ UNCHANGED <<tracer, ret, wasDelayed, phase, result>>
       ELSE /\ tracer' = [tracer EXCEPT ![h] = "Armed"]
            /\ wasDelayed' = [wasDelayed EXCEPT ![h] =
                                IF is_delayed(d.eta, now) THEN "yes" ELSE "no"]
            /\ pc' = [pc EXCEPT ![h] = IF is_delayed(d.eta, now) THEN "inc" ELSE "trace"]
            /\ UNCHANGED <<perr, ret, phase, result>>
    /\ UNCHANGED <<delivery, oplog, retryEta, failedOp, lastFailed, outcome, now, events,
                   spawned, sigTaken, pending_tasks, exitedFrom>>
    /\ UNCHANGED regVars
    /\ UNCHANGED optVars

\* Faulty variant of AckErr: the error is returned without the ack.
AckErrSkipsAck(h) ==
    /\ pc[h] = "ack_err"
    /\ Return(h, perr[h])
    /\ UNCHANGED <<delivery, wasDelayed, tracer, perr, oplog, retryEta, failedOp, lastFailed, outcome, now,
                   events, spawned>>
    /\ UNCHANGED regVars
    /\ UNCHANGED optVars
    /\ UNCHANGED <<sigTaken, pending_tasks, exitedFrom>>

\* Faulty variant of AckErr: the delivery is sent back with retry(None).
AckErrRetries(h) ==
    /\ pc[h] = "ack_err"
    /\ oplog' = Log(h, <<"retry">>)
    /\ \E ok \in BOOLEAN :
        /\ Return(h, IF ok THEN perr[h] ELSE BrokerErr("retry"))
        /\ Failed(h, "retry", ok)
    /\ UNCHANGED <<delivery, wasDelayed, tracer, perr, retryEta, outcome, now, events, spawned>>
    /\ UNCHANGED regVars
    /\ UNCHANGED optVars
    /\ UNCHANGED <<sigTaken, pending_tasks, exitedFrom>>

\* The ack of a delivery that could not be decoded or has no tracer; the
\* handler returns the held error, or the error of the ack when that fails.
AckErr(h) ==
    /\ pc[h] = "ack_err"
    /\ oplog' = Log(h, <<"ack">>)
    /\ \E ok \in BOOLEAN :
        /\ Return(h, IF ok THEN perr[h] ELSE BrokerErr("ack"))
        /\ Failed(h, "ack", ok)
    /\ UNCHANGED <<delivery, wasDelayed, tracer, perr, retryEta, outcome, now, events, spawned>>
    /\ UNCHANGED regVars
    /\ UNCHANGED optVars
    /\ UNCHANGED <<sigTaken, pending_tasks, exitedFrom>>

\* Faulty variant of IncreasePrefetch: a failed increase is ignored and the
\* handler goes on to trace().
IncreasePrefetchTracesOnFailure(h) ==
    /\ pc[h] = "inc"
    /\ oplog' = Log(h, <<"inc">>)
    /\ \E ok \in BOOLEAN : Failed(h, "inc", ok)
    /\ pc' = [pc EXCEPT ![h] = "trace"]
    /\ UNCHANGED <<delivery, wasDelayed, tracer, perr, ret, retryEta, outcome, now, events, spawned>>
    /\ UNCHANGED regVars
    /\ UNCHANGED optVars
    /\ UNCHANGED loopVars

\* broker.increase_prefetch_count() for a delayed tracer.
IncreasePrefetch(h) ==
    /\ pc[h] = "inc"
    /\ oplog' = Log(h, <<"inc">>)
    /\ \E ok \in BOOLEAN :
        /\ Failed(h, "inc", ok)
        /\ IF ok
           THEN /\ pc' = [pc EXCEPT ![h] = "trace"]
                /\ UNCHANGED perr
           ELSE /\ pc' = [pc EXCEPT ![h] = "retry_none"]
                /\ perr' = [perr EXCEPT ![h] = BrokerErr("inc")]
    /\ UNCHANGED <<delivery, wasDelayed, tracer, ret, retryEta, outcome, now, events, spawned>>
    /\ UNCHANGED regVars
    /\ UNCHANGED optVars
    /\ UNCHANGED loopVars

\* Faulty variant of RetryNone: the delivery is ack'd instead of sent back.
RetryNoneAcks(h) ==
    /\ pc[h] = "retry_none"
    /\ oplog' = Log(h, <<"ack">>)
    /\ \E ok \in BOOLEAN :
        /\ Return(h, IF ok THEN perr[h] ELSE BrokerErr("ack"))
        /\ Failed(h, "ack", ok)
    /\ UNCHANGED <<delivery, wasDelayed, tracer, perr, retryEta, outcome, now, events, spawned>>
    /\ UNCHANGED regVars
    /\ UNCHANGED optVars
    /\ UNCHANGED <<sigTaken, pending_tasks, exitedFrom>>

\* broker.retry(delivery, None) after a failed increase_prefetch_count.
RetryNone(h) ==
    /\ pc[h] = "retry_none"
    /\ oplog' = Log(h, <<"retry">>)
    /\ retryEta' = [retryEta EXCEPT ![h] = None]
    /\ \E ok \in BOOLEAN :
        /\ Return(h, IF ok THEN perr[h] ELSE BrokerErr("retry"))
        /\ Failed(h, "retry", ok)
    /\ UNCHANGED <<delivery, wasDelayed, tracer, perr, outcome, now, events, spawned>>
    /\ UNCHANGED regVars
    /\ UNCHANGED optVars
    /\ UNCHANGED <<sigTaken, pending_tasks, exitedFrom>>

\* trace() is invoked: the tracer emits Pending and sleeps until the ETA.
TraceBegin(h) ==
    /\ pc[h] = "trace"
    /\ tracer' = [tracer EXCEPT ![h] = "Running"]
    /\ oplog' = Log(h, <<"Pending">>)
    /\ events' = Send(events, "Pending")
    /\ pc' = [pc EXCEPT ![h] = "running"]
    /\ UNCHANGED <<delivery, wasDelayed, perr, ret, retryEta, failedOp, lastFailed, outcome, now, spawned>>
    /\ UNCHANGED regVars
    /\ UNCHANGED optVars
    /\ UNCHANGED loopVars

\* The ETA has passed: execute() runs and ends, the tracer emits Finished
\* and trace() returns.
TraceExecute(h) ==
    /\ pc[h] = "running"
    /\ ~is_delayed(delivery[h].eta, now)
    /\ \E o \in Outcomes(OptionsOf(h)) :
        /\ outcome' = [outcome EXCEPT ![h] = o]
        /\ tracer' = [tracer EXCEPT ![h] = TracerDone(o, delivery[h].retries, OptionsOf(h))]
    /\ oplog' = Log(h, <<"execute", "Finished">>)
    /\ events' = Send(events, "Finished")
    /\ pc' = [pc EXCEPT ![h] = "traced"]
    /\ UNCHANGED <<delivery, wasDelayed, perr, ret, retryEta, failedOp, lastFailed, now, spawned>>
    /\ UNCHANGED regVars
    /\ UNCHANGED optVars
    /\ UNCHANGED loopVars

\* The eta argument of the broker call op made at time t by handler h.
EtaArg(h, op, t) ==
    IF op = "retry" THEN retry_eta(delivery[h].retries, OptionsOf(h), t) ELSE None

\* Faulty variant of Terminal: decrease_prefetch_count is called without
\* asking is_delayed().
TerminalAlwaysDecreases(h) ==
    /\ pc[h] = "traced"
    /\ LET op == TerminalOp(TraceReturn(tracer[h])) IN
       /\ retryEta' = [retryEta EXCEPT ![h] = EtaArg(h, op, now)]
       /\ \E ok \in BOOLEAN, okDec \in BOOLEAN :
            IF ~ok
            THEN /\ oplog' = Log(h, <<op>>)
                 /\ Failed(h, op, FALSE)
                 /\ Return(h, BrokerErr(op))
            ELSE /\ oplog' = Log(h, <<op, "dec">>)
                 /\ Failed(h, "dec", okDec)
                 /\ Return(h, IF okDec THEN "Ok" ELSE BrokerErr("dec"))
    /\ UNCHANGED <<delivery, wasDelayed, tracer, perr, outcome, now, events, spawned>>
    /\ UNCHANGED regVars
    /\ UNCHANGED optVars
    /\ UNCHANGED <<sigTaken, pending_tasks, exitedFrom>>

\* The match on the result of trace(): ack or retry; then, when that call
\* succeeded and the tracer is (still) delayed, decrease_prefetch_count.
Terminal(h) ==
    /\ pc[h] = "traced"
    /\ LET op == TerminalOp(TraceReturn(tracer[h])) IN
       /\ retryEta' = [retryEta EXCEPT ![h] = EtaArg(h, op, now)]
       /\ \E ok \in BOOLEAN, okDec \in BOOLEAN :
            IF ~ok
            THEN /\ oplog' = Log(h, <<op>>)
                 /\ Failed(h, op, FALSE)
                 /\ Return(h, BrokerErr(op))
            ELSE IF is_delayed(delivery[h].eta, now)
            THEN /\ oplog' = Log(h, <<op, "dec">>)
                 /\ Failed(h, "dec", okDec)
                 /\ Return(h, IF okDec THEN "Ok" ELSE BrokerErr("dec"))
            ELSE /\ oplog' = Log(h, <<op>>)
                 /\ Failed(h, op, TRUE)
                 /\ Return(h, "Ok")
    /\ UNCHANGED <<delivery, wasDelayed, tracer, perr, outcome, now, events, spawned>>
    /\ UNCHANGED regVars
    /\ UNCHANGED optVars
    /\ UNCHANGED <<sigTaken, pending_tasks, exitedFrom>>

\* ----------------------------------------------------------------- consume
\* deliveries.next() yields a delivery result: spawn handle_delivery.
Deliver(d) ==
    /\ phase = "main"
    /\ spawned < MaxDeliveries
    /\ spawned' = spawned + 1
    /\ delivery' = [delivery EXCEPT ![spawned + 1] = d]
    /\ pc' = [pc EXCEPT ![spawned + 1] = "spawned"]
    /\ UNCHANGED <<tracer, perr, ret, oplog, retryEta, failedOp, lastFailed, outcome,
                   wasDelayed, now, events>>
    /\ UNCHANGED regVars
    /\ UNCHANGED optVars
    /\ UNCHANGED loopVars

\* Faulty variant of Count: a Finished event leaves the counter as it is.
CountIgnoresFinished(n, ev) == IF ev = "Pending" THEN n + 1 ELSE n

\* Faulty variant of Count: the two arms of the match are swapped.
CountSwapped(n, ev) == IF ev = "Pending" THEN n - 1 ELSE n + 1

\* The counter after a task event.
Count(n, ev) == IF ev = "Pending" THEN n + 1 ELSE n - 1

\* consume returns v: the receiver of the event channel is dropped.
ConsumeReturns(v) ==
    /\ phase' = "returned"
    /\ result' = v
    /\ events' = <<>>
    /\ exitedFrom' = phase

\* Faulty variant of MainSignal: with tasks pending, the first interrupt
\* already returns ForcedShutdown.
MainSignalForces ==
    /\ phase = "main"
    /\ sigTaken' = sigTaken + 1
    /\ ConsumeReturns(IF pending_tasks > 0 THEN "ForcedShutdown" ELSE "Ok")
    /\ UNCHANGED <<pending_tasks, now, spawned>>
    /\ UNCHANGED regVars
    /\ UNCHANGED optVars
    /\ UNCHANGED handlerVars

\* Faulty variant of MainSignal: the warm-shutdown loop is skipped whatever
\* the counter says.
MainSignalReturnsOk ==
    /\ phase = "main"
    /\ sigTaken' = sigTaken + 1
    /\ ConsumeReturns("Ok")
    /\ UNCHANGED <<pending_tasks, now, spawned>>
    /\ UNCHANGED regVars
    /\ UNCHANGED optVars
    /\ UNCHANGED handlerVars

\* Faulty variant of MainSignal: the interrupt is logged and the main loop
\* goes on.
MainSignalKeepsConsuming ==
    /\ phase = "main"
    /\ sigTaken' = sigTaken + 1
    /\ UNCHANGED <<phase, result, events, pending_tasks, exitedFrom, now, spawned>>
    /\ UNCHANGED regVars
    /\ UNCHANGED optVars
    /\ UNCHANGED handlerVars

\* Main loop, signals.next(): break; then the test pending_tasks > 0.
MainSignal ==
    /\ phase = "main"
    /\ sigTaken' = sigTaken + 1
    /\ IF pending_tasks > 0
       THEN /\ phase' = "warm"
            /\ UNCHANGED <<result, events, exitedFrom>>
       ELSE ConsumeReturns("Ok")
    /\ UNCHANGED <<pending_tasks, now, spawned>>
    /\ UNCHANGED regVars
    /\ UNCHANGED optVars
    /\ UNCHANGED handlerVars

\* Main loop, event_rx.next().
MainEvent ==
    /\ phase = "main"
    /\ events # <<>>
    /\ pending_tasks' = Count(pending_tasks, Head(events))
    /\ events' = Tail(events)
    /\ UNCHANGED <<phase, result, sigTaken, exitedFrom, now, spawned>>
    /\ UNCHANGED regVars
    /\ UNCHANGED optVars
    /\ UNCHANGED handlerVars

\* Warm-shutdown loop, signals.next(): the second interrupt.
WarmSignal ==
    /\ phase = "warm"
    /\ sigTaken' = sigTaken + 1
    /\ ConsumeReturns("ForcedShutdown")
    /\ UNCHANGED <<pending_tasks, now, spawned>>
    /\ UNCHANGED regVars
    /\ UNCHANGED optVars
    /\ UNCHANGED handlerVars

\* Faulty variant of WarmEvent: the test pending_tasks <= 0 is missing, the
\* loop only ends on a second interrupt.
WarmEventNeverBreaks ==
    /\ phase = "warm"
    /\ events # <<>>
    /\ pending_tasks' = Count(pending_tasks, Head(events))
    /\ events' = Tail(events)
    /\ UNCHANGED <<phase, result, exitedFrom>>
    /\ UNCHANGED <<sigTaken, now, spawned>>
    /\ UNCHANGED regVars
    /\ UNCHANGED optVars
    /\ UNCHANGED handlerVars

\* Warm-shutdown loop, event_rx.next().
WarmEvent ==
    /\ phase = "warm"
    /\ events # <<>>
    /\ pending_tasks' = Count(pending_tasks, Head(events))
    /\ IF Count(pending_tasks, Head(events)) <= 0
       THEN ConsumeReturns("Ok")
       ELSE /\ events' = Tail(events)
            /\ UNCHANGED <<phase, result, exitedFrom>>
    /\ UNCHANGED <<sigTaken, now, spawned>>
    /\ UNCHANGED regVars
    /\ UNCHANGED optVars
    /\ UNCHANGED handlerVars

\* Time passes.
Tick ==
    /\ now < MaxTime
    /\ now' = now + 1
    /\ UNCHANGED <<events, spawned>>
    /\ UNCHANGED regVars
    /\ UNCHANGED optVars
    /\ UNCHANGED loopVars
    /\ UNCHANGED handlerVars

Next ==
    \/ \E d \in Deliveries : Deliver(d)
    \/ \E h \in Handlers : HandleStart(h)
    \/ \E h \in Handlers : AckErr(h)
    \/ \E h \in Handlers : IncreasePrefetch(h)
    \/ \E h \in Handlers : RetryNone(h)
    \/ \E h \in Handlers : TraceBegin(h)
    \/ \E h \in Handlers : TraceExecute(h)
    \/ \E h \in Handlers : Terminal(h)
    \/ MainSignal
    \/ MainEvent
    \/ WarmSignal
    \/ WarmEvent
    \/ Tick

Spec == Init /\ [][Next]_vars

\* One step of the spawned task of handler h.
HandlerStep(h) ==
    \/ HandleStart(h)
    \/ AckErr(h)
    \/ IncreasePrefetch(h)
    \/ RetryNone(h)
    \/ TraceBegin(h)
    \/ TraceExecute(h)
    \/ Terminal(h)

\* Something the runtime has to run: a spawned task that can go on, a timer
\* that is due, an event that is ready for the select! loop. Interrupts and
\* deliveries are not among them: nothing makes one arrive.
Scheduled ==
    \/ \E h \in Handlers : HandlerStep(h)
    \/ Tick
    \/ MainEvent
    \/ WarmEvent

\* The runtime does not stop while something is ready to run.
Fairness == WF_vars(Scheduled)

FairSpec == Spec /\ Fairness

\* ------------------------------------------------------------- properties
\* Number of occurrences of op in a handler's log, and its first position
\* (0 when absent).
Occ(log, op) == Cardinality({i \in 1..Len(log) : log[i] = op})
Pos(log, op) ==
    IF Occ(log, op) = 0 THEN 0
    ELSE CHOOSE i \in 1..Len(log) : log[i] = op /\ \A j \in 1..(i - 1) : log[j] # op

\* Terminal broker operations (ack, retry) invoked on the delivery of a handler.
TerminalOps(log) == Occ(log, "ack") + Occ(log, "retry")
TerminalPos(log) == IF Occ(log, "ack") > 0 THEN Pos(log, "ack") ELSE Pos(log, "retry")

\* The handler was given an Ok delivery.
OkDelivery(h) == delivery[h].kind \in {"undecodable", "msg"}

\* C1: every Ok delivery whose handler has run to completion has had exactly
\* one terminal broker operation (ack or retry) invoked on it, on every path;
\* no delivery ever has more than one.
C1_ExactlyOneTerminalOp ==
    \A h \in Handlers :
        /\ TerminalOps(oplog[h]) <= 1
        /\ (pc[h] = "done" /\ OkDelivery(h)) => TerminalOps(oplog[h]) = 1

\* A handler that finished on the retry branch after a task failure.
C1_Witness ==
    \E h \in Handlers :
        /\ pc[h] = "done"
        /\ outcome[h] = "Retryable"
        /\ Occ(oplog[h], "retry") = 1
        /\ Occ(oplog[h], "ack") = 0

\* C2: for a delivery whose tracer was delayed at the first is_delayed() (the
\* handler then calls increase_prefetch_count), the increase and decrease calls
\* are equal in number once the handler has finished, whatever the outcome of
\* the task.  Stated for the handlers none of whose broker calls failed.
C2_PrefetchBalanced ==
    \A h \in Handlers :
        (pc[h] = "done" /\ Occ(oplog[h], "inc") > 0 /\ failedOp[h] = "none")
            => Occ(oplog[h], "inc") = Occ(oplog[h], "dec")

\* C3: consume has returned Ok only when no spawned handler is in flight.
C3_OkMeansNoHandlerInFlight ==
    result = "Ok" => \A h \in Handlers : pc[h] \in {"idle", "done"}

\* C4: an interrupt taken in the main loop leaves the main loop for the warm
\* shutdown (the warm-shutdown loop, or Ok at once when nothing is pending);
\* an interrupt taken in the warm-shutdown loop returns ForcedShutdown in that
\* step, with tasks still pending; ForcedShutdown is returned only after two
\* interrupts.
C4_TwoPhaseShutdown ==
    [][/\ (phase = "main" /\ sigTaken' # sigTaken) =>
            /\ sigTaken = 0
            /\ \/ phase' = "warm" /\ result' = "none" /\ pending_tasks > 0
               \/ phase' = "returned" /\ result' = "Ok" /\ pending_tasks <= 0
       /\ (phase = "warm" /\ sigTaken' # sigTaken) =>
            /\ phase' = "returned"
            /\ result' = "ForcedShutdown"
            /\ pending_tasks' = pending_tasks
            /\ pending_tasks > 0
       /\ (result' = "ForcedShutdown") => sigTaken' = 2
      ]_vars

\* consume has returned ForcedShutdown while a handler is still in flight.
C4_Witness ==
    /\ result = "ForcedShutdown"
    /\ sigTaken = 2
    /\ \E h \in Handlers : pc[h] \notin {"idle", "done"}

\* C5: once consume has returned ForcedShutdown, no ack or retry is invoked.
C5_NoTerminalOpAfterForcedShutdown ==
    [][result = "ForcedShutdown" =>
         \A h \in Handlers : TerminalOps(oplog'[h]) = TerminalOps(oplog[h])]_vars

\* C6: for a delivery that reached execution and whose handler has finished,
\* the order is Pending, execute, ack or retry, Finished, and then
\* decrease_prefetch_count if it was called.
C6_ObservableOrder ==
    \A h \in Handlers :
        (pc[h] = "done" /\ Occ(oplog[h], "execute") > 0) =>
            /\ 0 < Pos(oplog[h], "Pending")
            /\ Pos(oplog[h], "Pending") < Pos(oplog[h], "execute")
            /\ Pos(oplog[h], "execute") < TerminalPos(oplog[h])
            /\ TerminalPos(oplog[h]) < Pos(oplog[h], "Finished")
            /\ Occ(oplog[h], "dec") > 0 =>
                    Pos(oplog[h], "Finished") < Pos(oplog[h], "dec")

\* The delivery of handler h cannot be decoded, or names no registered task.
Undecodable(h) == delivery[h].kind = "undecodable"
UnknownTask(h) ==
    delivery[h].kind = "msg" /\ LookupBuilder(registry, delivery[h]) = "none"

\* The error such a delivery is rejected with.
RejectError(h) ==
    IF Undecodable(h) THEN "ProtocolError" ELSE UnregisteredTaskError(delivery[h].task)

\* What the handler of such a delivery does besides reporting: one ack, no
\* retry, no event, no prefetch call, no tracer and no execution.
OnlyAcked(h) ==
    /\ oplog[h] = <<"ack">>
    /\ tracer[h] = "none"
    /\ outcome[h] = "none"

\* C7 as claimed: an undecodable delivery and a delivery of an unknown task is
\* only ack'd, and its handler reports the decode error, respectively
\* UnregisteredTask(name).
C7_RejectedAckedAndReported ==
    \A h \in Handlers :
        (pc[h] = "done" /\ (Undecodable(h) \/ UnknownTask(h))) =>
            /\ OnlyAcked(h)
            /\ ret[h] = RejectError(h)

\* C7, amended: such a delivery is only ack'd; its handler reports the decode
\* error, respectively UnregisteredTask(name), when the ack succeeds, and the
\* error of the ack when the ack fails.
C7_RejectedAckedReportedUnlessAckFails ==
    \A h \in Handlers :
        /\ (Undecodable(h) \/ UnknownTask(h)) =>
                /\ tracer[h] = "none"
                /\ \A i \in 1..Len(oplog[h]) : oplog[h][i] = "ack"
        /\ (pc[h] = "done" /\ (Undecodable(h) \/ UnknownTask(h))) =>
                /\ OnlyAcked(h)
                /\ ret[h] = IF failedOp[h] = "ack" THEN BrokerErr("ack") ELSE RejectError(h)

\* The handler of an unknown task has ack'd and reported UnregisteredTask(unknown).
C7_Witness ==
    \E h \in Handlers :
        /\ pc[h] = "done"
        /\ UnknownTask(h)
        /\ oplog[h] = <<"ack">>
        /\ ret[h] = UnregisteredTaskError("unknown")

\* The register_task calls before call i that registered the name of call i.
EarlierSameName(i) ==
    {j \in 1..(i - 1) : NAME(regLog[j].task) = NAME(regLog[i].task)}

\* The calls that registered name n.
CallsFor(n) == {i \in 1..Len(regLog) : NAME(regLog[i].task) = n}

\* C8: a register_task call for a name registered before fails with
\* TaskAlreadyExists(name), a call for a new name returns Ok, and each name maps
\* to the builder of the first call made for it (to none when there was no call).
C8_RegisterOnce ==
    /\ \A i \in 1..Len(regLog) :
        regLog[i].result = IF EarlierSameName(i) # {}
                           THEN TaskAlreadyExists(NAME(regLog[i].task))
                           ELSE "Ok"
    /\ \A n \in TaskNames :
        registry[n] = IF CallsFor(n) = {} THEN "none"
                      ELSE regLog[CHOOSE i \in CallsFor(n) : \A j \in CallsFor(n) : i <= j].task

\* Add was registered, then Add2 (same name) was refused and Add stayed.
C8_Witness ==
    \E i \in 1..Len(regLog) :
        /\ regLog[i].task = "Add2"
        /\ regLog[i].result = TaskAlreadyExists("add")
        /\ registry["add"] = "Add"

\* C9 as claimed: every constructed tracer has produced exactly one Pending and
\* exactly one Finished when its handler has finished.
C9_OnePendingOneFinished ==
    \A h \in Handlers :
        (pc[h] = "done" /\ tracer[h] # "none") =>
            /\ Occ(oplog[h], "Pending") = 1
            /\ Occ(oplog[h], "Finished") = 1

\* C9, amended: when its handler has finished, a constructed tracer whose
\* trace() was invoked has produced exactly one Pending and exactly one
\* Finished; on the path where increase_prefetch_count failed, trace() was not
\* invoked and the tracer has produced neither.  No tracer ever produces an
\* event twice, or Finished without Pending.
C9_EventsOfTracedTracer ==
    \A h \in Handlers :
        /\ Occ(oplog[h], "Finished") <= Occ(oplog[h], "Pending")
        /\ Occ(oplog[h], "Pending") <= 1
        /\ (pc[h] = "done" /\ tracer[h] # "none") =>
            IF failedOp[h] = "inc"
            THEN Occ(oplog[h], "Pending") = 0 /\ Occ(oplog[h], "Finished") = 0
            ELSE Occ(oplog[h], "Pending") = 1 /\ Occ(oplog[h], "Finished") = 1

\* A delayed delivery whose increase_prefetch_count succeeded was traced to the end.
C9_Witness ==
    \E h \in Handlers :
        /\ pc[h] = "done"
        /\ Occ(oplog[h], "inc") = 1
        /\ failedOp[h] = "none"
        /\ Occ(oplog[h], "Pending") = 1
        /\ Occ(oplog[h], "Finished") = 1

\* The retry cap of handler h is reached.
RetriesExhausted(h) ==
    /\ OptionsOf(h).max_retries # None
    /\ delivery[h].retries >= OptionsOf(h).max_retries

\* C10: a delivery whose task failed retryably ends with ack and no retry when
\* its retry count has reached max_retries, and otherwise (count below
\* max_retries, or no max_retries) with retry carrying retry_eta of the time of
\* the call; a retry after trace() happens only when trace() returned Retry.
C10_RetryCap ==
    \A h \in Handlers :
        /\ (pc[h] = "done" /\ outcome[h] = "Retryable") =>
            IF RetriesExhausted(h)
            THEN Occ(oplog[h], "ack") = 1 /\ Occ(oplog[h], "retry") = 0
            ELSE /\ Occ(oplog[h], "retry") = 1 /\ Occ(oplog[h], "ack") = 0
                 /\ \E t \in 0..now :
                        retryEta[h] = retry_eta(delivery[h].retries, OptionsOf(h), t)
        /\ (Occ(oplog[h], "execute") > 0 /\ Occ(oplog[h], "retry") > 0) =>
                TraceReturn(tracer[h]) = "Retry"

\* A delivery with retries = max_retries failed retryably and was ack'd.
C10_Witness ==
    \E h \in Handlers :
        /\ pc[h] = "done"
        /\ outcome[h] = "Retryable"
        /\ delivery[h].retries = OptionsOf(h).max_retries
        /\ Occ(oplog[h], "ack") = 1

\* C11: a delivery whose execute() exceeded the timeout ends with retry
\* carrying retry_eta and without ack while the retry cap is not reached, and
\* with ack once it is; after trace() the dispatcher retries exactly when
\* trace() returned an error of kind Retry and acks in every other case.
C11_TimeoutRetried ==
    \A h \in Handlers :
        /\ (pc[h] = "done" /\ outcome[h] = "Timeout") =>
            IF RetriesExhausted(h)
            THEN Occ(oplog[h], "ack") = 1 /\ Occ(oplog[h], "retry") = 0
            ELSE /\ Occ(oplog[h], "retry") = 1 /\ Occ(oplog[h], "ack") = 0
                 /\ \E t \in 0..now :
                        retryEta[h] = retry_eta(delivery[h].retries, OptionsOf(h), t)
        /\ (pc[h] = "done" /\ outcome[h] # "none") =>
            /\ (TraceReturn(tracer[h]) = "Retry") <=> (Occ(oplog[h], "retry") = 1)
            /\ (TraceReturn(tracer[h]) # "Retry") <=> (Occ(oplog[h], "ack") = 1)

\* A task timed out below its retry cap and its delivery was sent to retry.
C11_Witness ==
    \E h \in Handlers :
        /\ pc[h] = "done"
        /\ outcome[h] = "Timeout"
        /\ tracer[h] = "TimedOut"
        /\ Occ(oplog[h], "retry") = 1
        /\ Occ(oplog[h], "ack") = 0

\* C12: whenever consume has returned Ok, with or without the warm-shutdown
\* loop, pending_tasks is 0.
C12_OkMeansCounterZero ==
    result = "Ok" => pending_tasks = 0

\* consume has returned Ok, the counter at 0, after a tracer ran from Pending
\* to Finished.
C12_Witness ==
    /\ result = "Ok"
    /\ pending_tasks = 0
    /\ \E h \in Handlers : Occ(oplog[h], "Finished") = 1 /\ pc[h] = "traced"

\* The tracers that have emitted Pending and not yet Finished.
PendingTracers ==
    {h \in Handlers : Occ(oplog[h], "Pending") = 1 /\ Occ(oplog[h], "Finished") = 0}

C19_CounterNotNegative ==
    pending_tasks >= 0

\* The loop has received Pending and Finished of a tracer: the counter went
\* up to 1 and back to 0.
C19_Witness ==
    /\ phase = "main"
    /\ pending_tasks = 0
    /\ events = <<>>
    /\ \E h \in Handlers : Occ(oplog[h], "Finished") = 1

\* C15: consume returns nothing but Ok or ForcedShutdown, and only after an
\* interrupt: whatever a handler returned, the main loop runs until the first
\* interrupt is taken.
C15_HandlerErrorsSwallowed ==
    /\ result \in {"none", "Ok", "ForcedShutdown"}
    /\ result # "none" => sigTaken >= 1
    /\ sigTaken = 0 => phase = "main"

\* A handler has returned an error and consume is still in its main loop.
C15_Witness ==
    /\ phase = "main"
    /\ result = "none"
    /\ \E h \in Handlers : pc[h] = "done" /\ ret[h] \notin {"none", "Ok"}

\* What the handler does on the path of a failed increase_prefetch_count
\* besides returning: increase, then retry(delivery, None); no trace(), no
\* execution, no ack, no decrease.
OnlyRetriedWithNone(h) ==
    /\ oplog[h] = <<"inc", "retry">>
    /\ retryEta[h] = None
    /\ tracer[h] = "Armed"
    /\ outcome[h] = "none"

\* C16 as claimed: when increase_prefetch_count failed, the handler calls
\* retry(delivery, None), does nothing else and returns the prefetch error.
C16_PrefetchErrorReturned ==
    \A h \in Handlers :
        (pc[h] = "done" /\ failedOp[h] = "inc") =>
            /\ OnlyRetriedWithNone(h)
            /\ ret[h] = BrokerErr("inc")

\* C16, amended: when increase_prefetch_count failed, the handler calls
\* retry(delivery, None) and does nothing else; it returns the prefetch error
\* when the retry succeeds and the error of the retry when the retry fails.
C16_PrefetchErrorUnlessRetryFails ==
    \A h \in Handlers :
        /\ failedOp[h] = "inc" =>
            /\ tracer[h] = "Armed"
            /\ \A i \in 1..Len(oplog[h]) : oplog[h][i] \in {"inc", "retry"}
        /\ (pc[h] = "done" /\ failedOp[h] = "inc") =>
            /\ OnlyRetriedWithNone(h)
            /\ ret[h] = IF lastFailed[h] = "retry" THEN BrokerErr("retry")
                        ELSE BrokerErr("inc")

\* The increase failed, the retry succeeded, the prefetch error was returned.
C16_Witness ==
    \E h \in Handlers :
        /\ pc[h] = "done"
        /\ failedOp[h] = "inc"
        /\ lastFailed[h] = "inc"
        /\ oplog[h] = <<"inc", "retry">>
        /\ ret[h] = BrokerErr("inc")

C18_NoPrefetchCallUnlessDelayed ==
    \A h \in Handlers :
        (delivery[h].eta = None \/ wasDelayed[h] = "no") =>
            /\ Occ(oplog[h], "inc") = 0
            /\ Occ(oplog[h], "dec") = 0

\* A delivery whose ETA had passed was executed and ack'd without a
\* prefetch call.
C18_Witness ==
    \E h \in Handlers :
        /\ pc[h] = "done"
        /\ delivery[h].eta # None
        /\ wasDelayed[h] = "no"
        /\ Occ(oplog[h], "ack") = 1
        /\ Occ(oplog[h], "inc") + Occ(oplog[h], "dec") = 0

\* The value overrides must give for one field: the task's when it has one,
\* else the base's.
TaskElseBase(taskValue, baseValue) ==
    IF taskValue = None THEN baseValue ELSE taskValue

\* C14: the result of overrides has, in each of the four fields, the task's
\* value when the task supplies one and the base value otherwise; with no
\* override it is the base; the builder starts from timeout none, max_retries
\* none, min_retry_delay 0, max_retry_delay 3600.
C14_OverridesRightBiased ==
    /\ DefaultTaskOptions =
        [timeout |-> None, max_retries |-> None, min_retry_delay |-> 0,
         max_retry_delay |-> 3600]
    /\ overridden.applied =>
        LET base == builder.task_options
            task == overridden.task
            res == overridden.result
        IN  /\ res.timeout = TaskElseBase(task.timeout, base.timeout)
            /\ res.max_retries = TaskElseBase(task.max_retries, base.max_retries)
            /\ res.min_retry_delay = TaskElseBase(task.min_retry_delay, base.min_retry_delay)
            /\ res.max_retry_delay = TaskElseBase(task.max_retry_delay, base.max_retry_delay)
            /\ task = NoOverrides => res = base

\* A task overrode a timeout the builder had set to another value, and left
\* the default max_retry_delay of 3600 alone.
C14_Witness ==
    /\ overridden.applied
    /\ builder.task_options.timeout # None
    /\ overridden.task.timeout # None
    /\ overridden.task.timeout # builder.task_options.timeout
    /\ overridden.result.timeout = overridden.task.timeout
    /\ overridden.task.max_retry_delay = None
    /\ overridden.result.max_retry_delay = 3600

\* C20: after the first interrupt, consume returns Ok unless a second
\* interrupt is taken: under fair scheduling of the handlers, the clock and
\* the event arm, the warm-shutdown loop does not wait forever.
C20_WarmShutdownReturnsOk ==
    (sigTaken = 1) ~> (result = "Ok" \/ sigTaken = 2)

\* consume returned Ok out of the warm-shutdown loop, on the Finished event
\* of a tracer, with one interrupt taken.
C20_Witness ==
    /\ result = "Ok"
    /\ exitedFrom = "warm"
    /\ sigTaken = 1
    /\ \E h \in Handlers : Occ(oplog[h], "Finished") = 1

====
